---- MODULE Spec2Model ----
(***************************************************************************)
(* process_folder_csvs of csv_to_excel_converter.py: a folder of CSV files *)
(* is converted into one workbook with a sheet per file.                   *)
(*                                                                         *)
(* Paths, file names and sheet names are strings, taken apart with Len,    *)
(* SubSeq and \o.  A DataFrame is a record [cols, rows] of column names    *)
(* and rows of cells; a cell is a record [kind, text, n].  The pandas,     *)
(* glob and os.path calls are modelled by what they do to these values.    *)
(***************************************************************************)
EXTENDS Naturals, Sequences, FiniteSets, TLC

(* ------------------------------ bounds -------------------------------- *)

\* a loaded table has 0..MaxRows data rows
MaxRows == 2
\* the wall clock reads minute 0..MaxMinute, second 0..MaxSecond and a
\* sub-second part 0..MaxSub
MaxMinute == 1
MaxSecond == 1
MaxSub == 1
\* how many characters the long file names have beyond the sheet-name limit
LongExtra == 1
\* how many times the converter is run on the same folder (SpecRuns)
MaxRuns == 2

(* ------------------------- program constants --------------------------- *)

\* csv_files[:3]
MaxFiles == 3
\* sheet_name[:31]
SheetNameLimit == 31

(* ------------------------------ strings -------------------------------- *)

Min(a, b) == IF a <= b THEN a ELSE b

Max(a, b) == IF a >= b THEN a ELSE b

\* the k-th character of a string
Char(s, k) == SubSeq(s, k, k)

\* n copies of the character c
RECURSIVE Rep(_, _)
Rep(c, n) == IF n = 0 THEN "" ELSE c \o Rep(c, n - 1)

\* the characters the model's names use, in code point order
CodePoints ==
    <<"-", ".", "/", "0", "1", "2", "3", "4", "5", "6", "7", "8", "9",
      "a", "b", "c", "d", "e", "l", "o", "s", "t", "v", "x", "y", "z">>

Ord(c) == CHOOSE k \in 1..Len(CodePoints) : CodePoints[k] = c

\* a < b for Python str: the first differing character decides, a proper
\* prefix is smaller
StrLess(a, b) ==
    LET n == Min(Len(a), Len(b))
        diff == {k \in 1..n : Char(a, k) # Char(b, k)}
    IN  IF diff = {}
        THEN Len(a) < Len(b)
        ELSE LET k == CHOOSE j \in diff : \A j2 \in diff : j <= j2
             IN  Ord(Char(a, k)) < Ord(Char(b, k))

\* list.sort() of a list of distinct strings
RECURSIVE SortedList(_)
SortedList(S) ==
    IF S = {} THEN <<>>
    ELSE LET m == CHOOSE x \in S : \A y \in S \ {x} : StrLess(x, y)
         IN  <<m>> \o SortedList(S \ {m})

EndsWith(s, suffix) ==
    /\ Len(s) >= Len(suffix)
    /\ SubSeq(s, Len(s) - Len(suffix) + 1, Len(s)) = suffix

\* os.path.join(folder_path, name)
PathJoin(folder_path, name) == folder_path \o "/" \o name

\* os.path.basename: what follows the last "/"
Basename(p) ==
    LET seps == {k \in 1..Len(p) : Char(p, k) = "/"}
    IN  IF seps = {} THEN p
        ELSE LET last == CHOOSE k \in seps : \A j \in seps : j <= k
             IN  SubSeq(p, last + 1, Len(p))

\* os.path.splitext(name)[0] of a base name: cut at the last dot, unless
\* only dots precede it
SplitextRoot(name) ==
    LET dots == {k \in 1..Len(name) : Char(name, k) = "."}
    IN  IF dots = {} THEN name
        ELSE LET last == CHOOSE k \in dots : \A j \in dots : j <= k
             IN  IF \E k \in 1..(last - 1) : Char(name, k) # "."
                 THEN SubSeq(name, 1, last - 1)
                 ELSE name

\* SheetName with a fault: the cut is one character too late
SheetNameCutLate(csv_file) ==
    LET root == SplitextRoot(Basename(csv_file))
    IN  SubSeq(root, 1, Min(Len(root), SheetNameLimit + 1))

\* sheet_name = os.path.splitext(os.path.basename(csv_file))[0][:31]
SheetName(csv_file) ==
    LET root == SplitextRoot(Basename(csv_file))
    IN  SubSeq(root, 1, Min(Len(root), SheetNameLimit))

\* fnmatch of a directory entry against "*.csv" as glob applies it: the
\* name ends in ".csv", and an entry starting with a dot is hidden from "*"
MatchesCsv(name) ==
    /\ EndsWith(name, ".csv")
    /\ Char(name, 1) # "."

\* glob.glob(os.path.join(folder_path, "*.csv")) over a directory listing
Glob(folder_path, listing) ==
    {PathJoin(folder_path, name) : name \in {e \in listing : MatchesCsv(e)}}

(* ------------------------------- time ---------------------------------- *)

\* the readings datetime.now() can give
Times == [minute : 0..MaxMinute, second : 0..MaxSecond, sub : 0..MaxSub]

\* a number below 100 as two decimal digits
TwoDigits(n) ==
    LET d == <<"0", "1", "2", "3", "4", "5", "6", "7", "8", "9">>
    IN  d[(n \div 10) + 1] \o d[(n % 10) + 1]

\* StrftimeFile with a fault: the seconds are left out of the format
StrftimeFileNoSeconds(t) == "20240101-00" \o TwoDigits(t.minute)

\* current_time.strftime("%Y%m%d-%H%M%S"): the reading to the second; the
\* date and the hour are the same for every reading of the model
StrftimeFile(t) ==
    "20240101-00" \o TwoDigits(t.minute) \o TwoDigits(t.second)

\* current_time.strftime("%Y-%m-%d %I:%M%p"): the reading to the minute
StrftimeColumn(t) == "2024-01-01 12:" \o TwoDigits(t.minute) \o "AM"

\* f"test-data-load-{timestamp}.xlsx"
ExcelFilename(timestamp) == "test-data-load-" \o timestamp \o ".xlsx"

(* ----------------------------- DataFrames ------------------------------ *)

\* a cell is [kind, text, n]: a number, a text, the value read from column
\* `text` of data row n of a CSV file, a header cell, or a cell of a sheet
\* nothing was written to
IntCell(n) == [kind |-> "int", text |-> "", n |-> n]

TextCell(text) == [kind |-> "text", text |-> text, n |-> 0]

DataCell(column, r) == [kind |-> "data", text |-> column, n |-> r]

HeaderCell(column) == [kind |-> "header", text |-> column, n |-> 0]

BlankCell == [kind |-> "blank", text |-> "", n |-> 0]

\* the tables the model's CSV files hold: a plain header with 0..MaxRows
\* records, and one-record tables whose header has a column the converter adds
Tables ==
    [header : {<<"x", "y">>}, nrows : 0..MaxRows]
    \cup [header : {<<"seqno", "x">>, <<"create_ts", "x">>}, nrows : {1}]

\* what a file holds when it is read: nothing at that path any more, zero
\* bytes, text that read_csv cannot parse, or a header line and nrows records
FileContents ==
    {[kind |-> k, header |-> <<>>, nrows |-> 0] : k \in {"missing", "empty", "bad"}}
    \cup {[kind |-> "table", header |-> t.header, nrows |-> t.nrows] : t \in Tables}

\* pd.read_csv(csv_file)
ReadCsv(content) ==
    CASE content.kind = "missing" -> [exc |-> "FileNotFoundError"]
      [] content.kind = "empty" -> [exc |-> "EmptyDataError"]
      [] content.kind = "bad" -> [exc |-> "ParserError"]
      [] OTHER ->
            [exc |-> "none",
             df |-> [cols |-> content.header,
                     rows |-> [r \in 1..content.nrows |->
                                [c \in 1..Len(content.header) |->
                                    DataCell(content.header[c], r)]]]]

\* SeqnoRange with a fault: the numbering starts at 0
SeqnoRangeFromZero(df) == [r \in 1..Len(df.rows) |-> r - 1]

\* range(1, len(df) + 1)
SeqnoRange(df) == [r \in 1..Len(df.rows) |-> r]

\* df.insert(0, column, values): pandas refuses a column name the frame has
DfInsertFirst(df, column, values) ==
    IF \E c \in 1..Len(df.cols) : df.cols[c] = column
    THEN [exc |-> "ValueError"]
    ELSE [exc |-> "none",
          df |-> [cols |-> <<column>> \o df.cols,
                  rows |-> [r \in 1..Len(df.rows) |->
                                <<IntCell(values[r])>> \o df.rows[r]]]]

\* df[column] = value: an existing column is overwritten where it stands, a
\* new one is added at the end
DfSetColumn(df, column, value) ==
    IF \E c \in 1..Len(df.cols) : df.cols[c] = column
    THEN [cols |-> df.cols,
          rows |-> [r \in 1..Len(df.rows) |->
                        [c \in 1..Len(df.cols) |->
                            IF df.cols[c] = column THEN value ELSE df.rows[r][c]]]]
    ELSE [cols |-> Append(df.cols, column),
          rows |-> [r \in 1..Len(df.rows) |-> Append(df.rows[r], value)]]

\* the cells df.to_excel(..., index=False) writes: the header row, then the
\* data rows
ExcelCells(df) ==
    <<[c \in 1..Len(df.cols) |-> HeaderCell(df.cols[c])]>> \o df.rows

\* the sheet writer.sheets holds under sheet_name, or 0
SheetIndex(sheets, sheet_name) ==
    IF \E k \in 1..Len(sheets) : sheets[k].name = sheet_name
    THEN CHOOSE k \in 1..Len(sheets) : sheets[k].name = sheet_name
    ELSE 0

\* cells written over the cells a sheet already has: the sheet keeps every
\* cell the new block does not cover
Overlay(old, new) ==
    LET nr == Max(Len(old), Len(new))
        width(g) == IF Len(g) = 0 THEN 0 ELSE Len(g[1])
        nc == Max(width(old), width(new))
    IN  [r \in 1..nr |-> [c \in 1..nc |->
            IF r <= Len(new) /\ c <= width(new) THEN new[r][c]
            ELSE IF r <= Len(old) /\ c <= width(old) THEN old[r][c]
            ELSE BlankCell]]

\* df.to_excel(writer, sheet_name=sheet_name, index=False) in write mode: a
\* new name gets a new sheet after the others, a name the workbook already
\* has gets the cells written into that sheet
ToExcel(sheets, sheet_name, df) ==
    LET k == SheetIndex(sheets, sheet_name)
    IN  IF k = 0
        THEN Append(sheets, [name |-> sheet_name, cells |-> ExcelCells(df)])
        ELSE [sheets EXCEPT ![k].cells = Overlay(@, ExcelCells(df))]

\* the body of the try block for one file read at clock reading ts_time:
\* the exception it ends with ("none": the sheet was written), and the frame
\* and the sheet name it reached
TryBody(csv_file, content, ts_time) ==
    LET loaded == ReadCsv(content)
    IN  IF loaded.exc # "none" THEN [exc |-> loaded.exc]
        ELSE
        LET ins == DfInsertFirst(loaded.df, "seqno", SeqnoRange(loaded.df))
        IN  IF ins.exc # "none" THEN [exc |-> ins.exc]
            ELSE
            LET timestamp == StrftimeColumn(ts_time)
                df1 == DfSetColumn(ins.df, "create_ts", TextCell(timestamp))
                df2 == DfSetColumn(df1, "updt_ts", TextCell(timestamp))
            IN  [exc |-> "none", df |-> df2, timestamp |-> timestamp,
                 sheet_name |-> SheetName(csv_file)]

(* --------------------------- the file system --------------------------- *)

\* the folder_path the converter is given
FolderPath == "d"

\* a base name with a dot in it
DottedName == "a.b.csv"

\* a base name of exactly SheetNameLimit characters
ExactName == Rep("a", SheetNameLimit - 1) \o "z.csv"

\* two base names longer than SheetNameLimit that differ only beyond it
LongNameX == Rep("a", SheetNameLimit) \o Rep("x", LongExtra) \o ".csv"

LongNameY == Rep("a", SheetNameLimit) \o Rep("y", LongExtra) \o ".csv"

CsvNames == {DottedName, ExactName, LongNameX, LongNameY}

\* entries "*.csv" does not match: another extension, and a hidden file
OtherNames == {"a.txt", ".csv"}

\* the listings the folder can have when the converter starts
Listings == {s \cup o : s \in SUBSET CsvNames, o \in {{}, OtherNames}}

(* ------------------------------- state --------------------------------- *)

VARIABLES
    folder_kind,  \* what folder_path refers to: "missing", "file" or "dir"
    entries,      \* the names in the folder, output workbooks aside
    outputs,      \* the workbook files in the folder: path -> [run, saved]
    clock,        \* the readings the wall clock gives in this behaviour
    run,          \* the number of the call of process_folder_csvs
    pc,           \* where the call is
    csv_files,    \* the local csv_files
    i,            \* the place of the loop in csv_files
    excel_path,   \* the local excel_path, "" before it is computed
    writer,       \* the ExcelWriter: [state, sheets]
    out,          \* what the call has printed
    calls,        \* the calls made on the writer, in order
    reads,        \* what read_csv found for csv_files[1..i-1]
    named         \* per call that named a workbook: [run, second, path, saved]

vars == <<folder_kind, entries, outputs, clock, run, pc, csv_files, i,
          excel_path, writer, out, calls, reads, named>>

\* one printed line
Msg(kind, path, n) == [kind |-> kind, path |-> path, n |-> n]

EmptyDf == [cols |-> <<>>, rows |-> <<>>]

\* one call on the writer
Call(op, file, sheet_name, df) ==
    [op |-> op, file |-> file, sheet_name |-> sheet_name, df |-> df]

NoWriter == [state |-> "none", sheets |-> <<>>]

\* the names os.listdir(folder_path) gives
Listing == entries \cup {Basename(p) : p \in DOMAIN outputs}

\* the locals of a call that has just been entered
Entered ==
    /\ pc = "validate"
    /\ csv_files = <<>>
    /\ i = 1
    /\ excel_path = ""
    /\ writer = NoWriter
    /\ out = <<>>
    /\ calls = <<>>
    /\ reads = <<>>

\* one call, on any folder, made within one reading of the clock
Init ==
    /\ folder_kind \in {"missing", "file", "dir"}
    /\ entries \in IF folder_kind = "dir" THEN Listings ELSE {{}}
    /\ outputs = <<>>
    /\ clock \in {{t} : t \in {u \in Times : u.second = 0 /\ u.sub = 0}}
    /\ run = 1
    /\ named = <<>>
    /\ Entered

\* repeated calls on a folder with at most one CSV file, made within one
\* minute of the clock
InitRuns ==
    /\ folder_kind \in {"missing", "file", "dir"}
    /\ entries \in IF folder_kind = "dir"
                   THEN {l \in Listings : Cardinality(l \cap CsvNames) <= 1}
                   ELSE {{}}
    /\ outputs = <<>>
    /\ clock = {t \in Times : t.minute = 0}
    /\ run = 1
    /\ named = <<>>
    /\ Entered

(* ------------------------------ actions -------------------------------- *)

\* lines 14-17: if not os.path.exists(folder_path): print, return
Validate ==
    /\ pc = "validate"
    /\ IF folder_kind = "missing"
       THEN /\ out' = Append(out, Msg("folder_does_not_exist", FolderPath, 0))
            /\ pc' = "done"
       ELSE /\ out' = out
            /\ pc' = "discover"
    /\ UNCHANGED <<folder_kind, entries, outputs, clock, run, csv_files, i,
                   excel_path, writer, calls, reads, named>>

\* the lines printed for the sorted list: the count, then every base name
FoundLines(sorted) ==
    <<Msg("found", "", Len(sorted))>>
        \o [k \in 1..Len(sorted) |-> Msg("listed", Basename(sorted[k]), 0)]

\* Discover with a fault: the check for an empty list is missing
DiscoverNoReturn ==
    /\ pc = "discover"
    /\ LET found == IF folder_kind = "dir" THEN Glob(FolderPath, Listing) ELSE {}
           sorted == SortedList(found)
       IN  /\ out' = out \o FoundLines(sorted)
           /\ csv_files' = sorted
           /\ pc' = "name"
    /\ UNCHANGED <<folder_kind, entries, outputs, clock, run, i, excel_path,
                   writer, calls, reads, named>>

\* lines 19-37: glob, return when nothing matched, sort, print, keep the
\* first three
Discover ==
    /\ pc = "discover"
    /\ LET found == IF folder_kind = "dir" THEN Glob(FolderPath, Listing) ELSE {}
           sorted == SortedList(found)
       IN  IF found = {}
           THEN /\ out' = Append(out, Msg("no_csv_files_found", FolderPath, 0))
                /\ pc' = "done"
                /\ csv_files' = <<>>
           ELSE /\ out' = out \o FoundLines(sorted)
                        \o (IF Len(sorted) > MaxFiles
                            THEN <<Msg("using_first", "", Len(sorted))>>
                            ELSE <<>>)
                /\ csv_files' = SubSeq(sorted, 1, Min(Len(sorted), MaxFiles))
                /\ pc' = "name"
    /\ UNCHANGED <<folder_kind, entries, outputs, clock, run, i, excel_path,
                   writer, calls, reads, named>>

\* lines 39-45: the workbook's path from the clock
NameOutput ==
    /\ pc = "name"
    /\ \E current_time \in clock :
          /\ excel_path' =
                PathJoin(FolderPath, ExcelFilename(StrftimeFile(current_time)))
          /\ named' = Append(named,
                [run |-> run,
                 second |-> <<current_time.minute, current_time.second>>,
                 path |-> excel_path',
                 saved |-> FALSE])
    /\ pc' = "open"
    /\ UNCHANGED <<folder_kind, entries, outputs, clock, run, csv_files, i,
                   writer, out, calls, reads>>

\* line 48: pd.ExcelWriter(excel_path, engine='openpyxl') opens the file for
\* writing, which creates it or empties the one that is there, and starts a
\* workbook with no sheet
OpenWriter ==
    /\ pc = "open"
    /\ writer' = [state |-> "open", sheets |-> <<>>]
    /\ outputs' = (excel_path :> [run |-> run, saved |-> FALSE]) @@ outputs
    /\ calls' = Append(calls, Call("open", excel_path, "", EmptyDf))
    /\ pc' = "loop"
    /\ UNCHANGED <<folder_kind, entries, clock, run, csv_files, i, excel_path,
                   out, reads, named>>

\* the loop moves to the next file, or past the last one
NextFile ==
    /\ i' = i + 1
    /\ pc' = IF i = Len(csv_files) THEN "close" ELSE "loop"

\* lines 51-73: the file is read, extended and written as a sheet
ProcessOk ==
    /\ pc = "loop"
    /\ \E content \in FileContents, ts_time \in clock :
          LET r == TryBody(csv_files[i], content, ts_time)
          IN  /\ r.exc = "none"
              /\ writer' = [writer EXCEPT
                    !.sheets = ToExcel(@, r.sheet_name, r.df)]
              /\ calls' = Append(calls,
                    Call("to_excel", csv_files[i], r.sheet_name, r.df))
              /\ out' = Append(out,
                    Msg("added", Basename(csv_files[i]), Len(r.df.rows)))
              /\ reads' = Append(reads, content)
    /\ NextFile
    /\ UNCHANGED <<folder_kind, entries, outputs, clock, run, csv_files,
                   excel_path, named>>

\* lines 75-76: read_csv found no file at the path
ExceptFileNotFound ==
    /\ pc = "loop"
    /\ \E content \in FileContents, ts_time \in clock :
          /\ TryBody(csv_files[i], content, ts_time).exc = "FileNotFoundError"
          /\ out' = Append(out, Msg("error_not_found", csv_files[i], 0))
          /\ reads' = Append(reads, content)
    /\ NextFile
    /\ UNCHANGED <<folder_kind, entries, outputs, clock, run, csv_files,
                   excel_path, writer, calls, named>>

\* ExceptEmptyData with a fault: the error ends the loop
ExceptEmptyDataBreaks ==
    /\ pc = "loop"
    /\ \E content \in FileContents, ts_time \in clock :
          /\ TryBody(csv_files[i], content, ts_time).exc = "EmptyDataError"
          /\ out' = Append(out, Msg("error_empty", csv_files[i], 0))
          /\ reads' = Append(reads, content)
    /\ i' = i + 1
    /\ pc' = "close"
    /\ UNCHANGED <<folder_kind, entries, outputs, clock, run, csv_files,
                   excel_path, writer, calls, named>>

\* lines 77-78: the file has no content
ExceptEmptyData ==
    /\ pc = "loop"
    /\ \E content \in FileContents, ts_time \in clock :
          /\ TryBody(csv_files[i], content, ts_time).exc = "EmptyDataError"
          /\ out' = Append(out, Msg("error_empty", csv_files[i], 0))
          /\ reads' = Append(reads, content)
    /\ NextFile
    /\ UNCHANGED <<folder_kind, entries, outputs, clock, run, csv_files,
                   excel_path, writer, calls, named>>

\* lines 79-80: every other exception of the try block
ExceptOther ==
    /\ pc = "loop"
    /\ \E content \in FileContents, ts_time \in clock :
          /\ TryBody(csv_files[i], content, ts_time).exc
                \notin {"none", "FileNotFoundError", "EmptyDataError"}
          /\ out' = Append(out, Msg("error_processing", csv_files[i], 0))
          /\ reads' = Append(reads, content)
    /\ NextFile
    /\ UNCHANGED <<folder_kind, entries, outputs, clock, run, csv_files,
                   excel_path, writer, calls, named>>

\* CloseWriter with a fault: the loop's end saves the workbook itself, and
\* leaving the with block saves it again
CloseWriterTwice ==
    /\ pc = "close"
    /\ calls' = calls \o <<Call("close", excel_path, "", EmptyDf),
                           Call("close", excel_path, "", EmptyDf)>>
    /\ IF writer.sheets = <<>>
       THEN /\ writer' = [writer EXCEPT !.state = "failed"]
            /\ outputs' = outputs
            /\ named' = named
            /\ pc' = "raised"
       ELSE /\ writer' = [writer EXCEPT !.state = "closed"]
            /\ outputs' = [outputs EXCEPT ![excel_path].saved = TRUE]
            /\ named' = [named EXCEPT ![Len(named)].saved = TRUE]
            /\ pc' = "report"
    /\ UNCHANGED <<folder_kind, entries, clock, run, csv_files, i, excel_path,
                   out, reads>>

\* line 48, leaving the with block: the writer saves the workbook and closes
\* the file; openpyxl refuses to save a workbook with no sheet (IndexError),
\* and nothing catches that
CloseWriter ==
    /\ pc = "close"
    /\ calls' = Append(calls, Call("close", excel_path, "", EmptyDf))
    /\ IF writer.sheets = <<>>
       THEN /\ writer' = [writer EXCEPT !.state = "failed"]
            /\ outputs' = outputs
            /\ named' = named
            /\ pc' = "raised"
       ELSE /\ writer' = [writer EXCEPT !.state = "closed"]
            /\ outputs' = [outputs EXCEPT ![excel_path].saved = TRUE]
            /\ named' = [named EXCEPT ![Len(named)].saved = TRUE]
            /\ pc' = "report"
    /\ UNCHANGED <<folder_kind, entries, clock, run, csv_files, i, excel_path,
                   out, reads>>

\* line 82
Report ==
    /\ pc = "report"
    /\ out' = Append(out, Msg("excel_file_created", excel_path, 0))
    /\ pc' = "done"
    /\ UNCHANGED <<folder_kind, entries, outputs, clock, run, csv_files, i,
                   excel_path, writer, calls, reads, named>>

\* lines 85-90: the script is run again on the same folder
RunAgain ==
    /\ pc \in {"done", "raised"}
    /\ run < MaxRuns
    /\ run' = run + 1
    /\ pc' = "validate"
    /\ csv_files' = <<>>
    /\ i' = 1
    /\ excel_path' = ""
    /\ writer' = NoWriter
    /\ out' = <<>>
    /\ calls' = <<>>
    /\ reads' = <<>>
    /\ UNCHANGED <<folder_kind, entries, outputs, clock, named>>

Next ==
    \/ Validate
    \/ Discover
    \/ NameOutput
    \/ OpenWriter
    \/ ProcessOk
    \/ ExceptFileNotFound
    \/ ExceptEmptyData
    \/ ExceptOther
    \/ CloseWriter
    \/ Report

NextRuns == Next \/ RunAgain

Spec == Init /\ [][Next]_vars

SpecRuns == InitRuns /\ [][NextRuns]_vars

(* ------------------------ vocabulary of the claims --------------------- *)

\* the places of the to_excel calls among the calls on the writer
WriteCalls == {k \in 1..Len(calls) : calls[k].op = "to_excel"}

\* the place of a retained file in csv_files
FileIndex(file) == CHOOSE j \in 1..Len(csv_files) : csv_files[j] = file

\* what read_csv found when it read a retained file
SourceOf(file) == reads[FileIndex(file)]

\* the folder entry a path names
EntryOf(file) == CHOOSE e \in entries : PathJoin(FolderPath, e) = file

\* a file content the loop body cannot turn into a sheet: it does not load,
\* or its header already has the column the converter inserts
Fails(content) ==
    \/ content.kind # "table"
    \/ \E c \in 1..Len(content.header) : content.header[c] = "seqno"

ErrorKinds == {"error_not_found", "error_empty", "error_processing"}

\* the call got past discovery and opened the writer
Writing == calls # <<>>

\* the call is over, by a return or by an exception
Over == pc \in {"done", "raised"}

(* -------------------------------- C1 ----------------------------------- *)

\* C1: when every retained file is turned into a sheet without an error, the
\* finished workbook has exactly min(N, 3) sheets for the N matching files
\* of the folder, the k-th sheet being the k-th file in sorted order: it has
\* that file's sheet name and holds exactly the cells written for that file.
C1_OneSheetPerFile ==
    (/\ pc \in {"report", "done"}
     /\ Writing
     /\ Cardinality(WriteCalls) = Len(csv_files))
    => LET all == SortedList(Glob(FolderPath, entries))
           n == Min(Len(all), MaxFiles)
       IN  /\ Len(writer.sheets) = n
           /\ \A k \in 1..n :
                /\ writer.sheets[k].name = SheetName(all[k])
                /\ \E c \in WriteCalls :
                      /\ calls[c].file = all[k]
                      /\ writer.sheets[k].cells = ExcelCells(calls[c].df)

(* -------------------------------- C2 ----------------------------------- *)

\* the frame has the shape C2 states for the table it was made from
C2_Shape(df, src) ==
    LET oc == Len(src.header)
    IN  /\ Len(df.cols) = oc + 3
        /\ Len(df.rows) = src.nrows
        /\ df.cols[1] = "seqno"
        /\ SubSeq(df.cols, 2, oc + 1) = src.header
        /\ df.cols[oc + 2] = "create_ts"
        /\ df.cols[oc + 3] = "updt_ts"
        /\ \A r \in 1..Len(df.rows) :
              /\ Len(df.rows[r]) = oc + 3
              /\ \A c \in 1..oc : df.rows[r][c + 1] = DataCell(src.header[c], r)
              /\ df.rows[r][oc + 2].kind = "text"
              /\ df.rows[r][oc + 3] = df.rows[r][oc + 2]
              /\ df.rows[r][oc + 2] = df.rows[1][oc + 2]

\* C2: every frame written as a sheet has the sequence number first, then
\* the columns of the source table unchanged and in order, then create_ts
\* and updt_ts holding one and the same text in every row: original_count + 3
\* columns and as many rows as the source table, whatever the header.
C2_SheetColumns ==
    \A k \in WriteCalls : C2_Shape(calls[k].df, SourceOf(calls[k].file))

(* -------------------------------- C3 ----------------------------------- *)

\* C3: no exception leaves process_folder_csvs.
C3_NeverRaises == pc # "raised"

(* -------------------------------- C4 ----------------------------------- *)

\* C4: a call on a path that is not an existing directory (missing, or a
\* regular file) ends having printed the existence error for the path and
\* nothing else (no line of the discovery), with no workbook created.
C4_NotADirectory ==
    (folder_kind # "dir" /\ Over)
    => /\ pc = "done"
       /\ out = <<Msg("folder_does_not_exist", FolderPath, 0)>>
       /\ outputs = <<>>
       /\ calls = <<>>

(* -------------------------------- C5 ----------------------------------- *)

\* C5: in an existing directory where "*.csv" matches nothing, a call that
\* is past discovery has returned: it printed the no-CSV-files line and
\* nothing else, computed no output path, opened no writer, created no
\* workbook file and read no file.
C5_NoCsvNoWorkbook ==
    (/\ folder_kind = "dir"
     /\ Glob(FolderPath, Listing) = {}
     /\ pc \notin {"validate", "discover"})
    => /\ pc = "done"
       /\ out = <<Msg("no_csv_files_found", FolderPath, 0)>>
       /\ excel_path = ""
       /\ named = <<>>
       /\ writer = NoWriter
       /\ outputs = <<>>
       /\ calls = <<>>
       /\ reads = <<>>

\* a call on a directory that holds only entries "*.csv" does not match
\* has returned
C5_Witness ==
    /\ folder_kind = "dir"
    /\ entries = OtherNames
    /\ pc = "done"

(* -------------------------------- C6 ----------------------------------- *)

\* the retained files read so far whose content became a sheet, in order
RECURSIVE SheetFiles(_)
SheetFiles(j) ==
    IF j = 0 THEN <<>>
    ELSE SheetFiles(j - 1)
            \o (IF Fails(reads[j]) THEN <<>> ELSE <<csv_files[j]>>)

\* C6: the loop reads the retained files one after the other and a failure
\* never ends it: once the loop is left every retained file has been read.
\* A file that fails is skipped alone: an error line naming it was printed
\* (the not-found line for a missing file, the empty line for an empty one)
\* and no sheet was written for it; a file that does not fail was written
\* once, and the workbook has the sheet it was written to.  When the sheet
\* names of the written files differ, the saved workbook holds exactly their
\* sheets, in file order.
C6_SkipAndContinue ==
    Writing =>
    /\ Len(reads) = i - 1
    /\ pc = "loop" => i <= Len(csv_files)
    /\ pc # "loop" => Len(reads) = Len(csv_files)
    /\ \A j \in 1..Len(reads) :
          LET written == {k \in WriteCalls : calls[k].file = csv_files[j]}
              errors == {m \in 1..Len(out) :
                            out[m].kind \in ErrorKinds /\ out[m].path = csv_files[j]}
          IN  IF Fails(reads[j])
              THEN /\ written = {}
                   /\ Cardinality(errors) = 1
                   /\ reads[j].kind = "missing" =>
                        \A m \in errors : out[m].kind = "error_not_found"
                   /\ reads[j].kind = "empty" =>
                        \A m \in errors : out[m].kind = "error_empty"
              ELSE /\ Cardinality(written) = 1
                   /\ errors = {}
                   /\ \A k \in written :
                        SheetIndex(writer.sheets, calls[k].sheet_name) # 0
    /\ LET files == SheetFiles(Len(reads))
       IN  (/\ writer.state = "closed"
            /\ \A a, b \in 1..Len(files) :
                  a # b => SheetName(files[a]) # SheetName(files[b]))
           => /\ Len(writer.sheets) = Len(files)
              /\ \A a \in 1..Len(files) :
                    /\ writer.sheets[a].name = SheetName(files[a])
                    /\ \E k \in WriteCalls :
                          /\ calls[k].file = files[a]
                          /\ writer.sheets[a].cells = ExcelCells(calls[k].df)

\* three files were retained, the second was empty, the other two were
\* written, and the workbook was saved with two sheets
C6_Witness ==
    /\ pc = "done"
    /\ Len(reads) = 3
    /\ reads[2].kind = "empty"
    /\ ~Fails(reads[1])
    /\ ~Fails(reads[3])
    /\ writer.state = "closed"
    /\ Len(writer.sheets) = 2

(* -------------------------------- C7 ----------------------------------- *)

\* C7: the frame of every to_excel call has the column seqno first, holding
\* 1, 2, ..., N in row order for the N rows of the table read from that
\* call's own file, whatever was written before; and the first column of
\* every sheet of the workbook is the seqno header over 1, 2, ... without a
\* gap.
C7_SequenceNumbers ==
    /\ \A k \in WriteCalls :
          LET df == calls[k].df
              N == SourceOf(calls[k].file).nrows
          IN  /\ Len(df.rows) = N
              /\ df.cols[1] = "seqno"
              /\ \A r \in 1..N : df.rows[r][1] = IntCell(r)
    /\ \A s \in 1..Len(writer.sheets) :
          LET cells == writer.sheets[s].cells
          IN  /\ cells[1][1] = HeaderCell("seqno")
              /\ \A r \in 2..Len(cells) : cells[r][1] = IntCell(r - 1)

\* a table of two rows or more was written right after a table with rows,
\* and a table with no row was written too
C7_Witness ==
    /\ \E k \in WriteCalls :
          /\ k - 1 \in WriteCalls
          /\ Len(calls[k - 1].df.rows) >= 1
          /\ Len(calls[k].df.rows) >= 2
    /\ \E k \in WriteCalls : Len(calls[k].df.rows) = 0

(* -------------------------------- C8 ----------------------------------- *)

\* C8: the sheet name of every to_excel call is the first 31 characters of
\* the file's base name without its ".csv": it is never longer than 31
\* characters and it is the whole base name when that has 31 characters or
\* fewer; the sheets of the workbook carry these names.
C8_SheetNames ==
    /\ \A k \in WriteCalls :
          LET name == EntryOf(calls[k].file)
              base == SubSeq(name, 1, Len(name) - 4)
              sheet_name == calls[k].sheet_name
          IN  /\ Len(sheet_name) <= 31
              /\ sheet_name = SubSeq(base, 1, Min(Len(base), 31))
              /\ Len(base) <= 31 => sheet_name = base
    /\ \A s \in 1..Len(writer.sheets) :
          \E k \in WriteCalls : writer.sheets[s].name = calls[k].sheet_name

\* a file with a base name longer than 31 characters, one of exactly 31 and
\* a shorter one were written
C8_Witness ==
    /\ \E k \in WriteCalls :
          /\ calls[k].file = PathJoin(FolderPath, LongNameX)
          /\ Len(calls[k].sheet_name) = 31
    /\ \E k \in WriteCalls :
          /\ calls[k].file = PathJoin(FolderPath, ExactName)
          /\ calls[k].sheet_name \o ".csv" = ExactName
    /\ \E k \in WriteCalls : calls[k].sheet_name = "a.b"

(* -------------------------------- C9 ----------------------------------- *)

\* the workbook file the k-th naming call created is still that call's
PathKept(k) ==
    /\ named[k].path \in DOMAIN outputs
    /\ outputs[named[k].path].run = named[k].run

\* C9: when a call returns after saving its workbook, the workbook every
\* earlier call saved is still in the folder as that call's file: the later
\* calls have not replaced it.
C9_NeverReplaced ==
    pc = "done" =>
    \A k \in 1..Len(named) : named[k].saved => PathKept(k)

\* C9 as amended: once a call is over, the workbook file of every call that
\* reached the writing stage is still the file that call created, provided
\* no later call read, for its file name, a clock showing the same second.
C9_KeptUnlessSameSecond ==
    Over =>
    \A k \in 1..Len(named) :
        (\A k2 \in (k + 1)..Len(named) : named[k2].second # named[k].second)
        => PathKept(k)

\* two calls named their workbooks in different seconds, both saved them,
\* and the folder holds both
C9_Witness ==
    /\ pc = "done"
    /\ Len(named) = 2
    /\ named[1].second # named[2].second
    /\ named[1].saved
    /\ named[2].saved
    /\ outputs[named[1].path] = [run |-> 1, saved |-> TRUE]
    /\ outputs[named[2].path] = [run |-> 2, saved |-> TRUE]

(* -------------------------------- C10 ---------------------------------- *)

\* the places of the calls `op` among the calls on the writer
CallsOf(op) == {k \in 1..Len(calls) : calls[k].op = op}

\* C10: in a call that reaches the writing stage the writer is opened once,
\* as the first call on it; csv_files is in ascending order and the sheet
\* writes follow it, with at most one per file and none for a file that
\* failed; the writer is
\* left (saved and closed) exactly once, after the last retained file was
\* read, never while the loop runs, and nothing is written after that; the
\* save succeeds whenever a sheet was written; the output-path line is
\* printed only after the writer was left, as the last line, once the call
\* returns.
C10_WriterLifecycle ==
    Writing =>
    /\ CallsOf("open") = {1}
    /\ \A a, b \in 1..Len(csv_files) :
          a < b => StrLess(csv_files[a], csv_files[b])
    /\ \A a, b \in WriteCalls :
          a < b => FileIndex(calls[a].file) < FileIndex(calls[b].file)
    /\ \A a \in WriteCalls :
          /\ FileIndex(calls[a].file) < i
          /\ ~Fails(SourceOf(calls[a].file))
    /\ pc \in {"loop", "close"} <=> CallsOf("close") = {}
    /\ pc \in {"loop", "close"} <=> writer.state = "open"
    /\ pc \in {"report", "done", "raised"} =>
          /\ CallsOf("close") = {Len(calls)}
          /\ Len(reads) = Len(csv_files)
          /\ writer.state \in {"closed", "failed"}
          /\ writer.state = "closed" <=> writer.sheets # <<>>
          /\ writer.state = "closed" <=> pc # "raised"
    /\ LET reports == {m \in 1..Len(out) : out[m].kind = "excel_file_created"}
       IN  /\ reports # {} => /\ writer.state = "closed"
                              /\ reports = {Len(out)}
                              /\ out[Len(out)].path = excel_path
           /\ pc = "done" <=> reports # {}

\* a call returned after a skipped file and a written one: open, to_excel,
\* close, and then the output-path line
C10_Witness ==
    /\ pc = "done"
    /\ writer.state = "closed"
    /\ \E m \in 1..Len(out) : out[m].kind \in ErrorKinds
    /\ Len(calls) >= 3
    /\ Len(csv_files) = 3

====
